---- MODULE Spec2Model ----
(***************************************************************************)
(* Filters.ObjectNotation of the entity-service parameter types            *)
(* (packages/core/types/src/modules/entity-service/params/filters).        *)
(*                                                                         *)
(* The file is type-level only: its "behaviour" is which filter literals   *)
(* the TypeScript checker accepts for a schema UID.  The model therefore   *)
(* has three layers:                                                       *)
(*   1. type terms and the TypeScript constructs the file uses (union,     *)
(*      intersection, mapped type, array, tuple, Guard.Never, MatchFirst); *)
(*   2. the type aliases of index.ts, translated one by one into           *)
(*      operators that build type terms (recursive aliases are kept as     *)
(*      references and unfolded on demand, as the checker does);           *)
(*   3. assignability of a filter literal (a fresh object literal) to a    *)
(*      type term, and a state machine in which a filter literal is        *)
(*      written step by step and re-checked after every edit.              *)
(***************************************************************************)
EXTENDS Integers, Sequences, FiniteSets, TLC

VARIABLES
    uid,        \* TSchemaUID the literal is checked against: a union (set) of schema UIDs
    filter,     \* the filter literal written so far
    verdict,    \* the checker's answer for  filter : ObjectNotation<uid>
    pc,         \* "start" | "editing" | "resolved"
    attrName,   \* TAttributeName last given to GetScalarAttributeValue (a set: {} is never)
    valueType   \* the type GetScalarAttributeValue resolved to

vars == <<uid, filter, verdict, pc, attrName, valueType>>

(***************************************************************************)
(* Bounds of the exploration.                                              *)
(***************************************************************************)
MaxDepth == 3   \* nesting levels of the literal
MaxLen == 3     \* elements of an array literal
MaxKeys == 2    \* keys of one object literal

(***************************************************************************)
(* Filter literals.  Primitive literals are abstracted to their kind: a    *)
(* string literal that does not hold a number ('abc'), a number literal,   *)
(* a boolean literal.  Type terms also know "numstr", the template         *)
(* literal type `${number}`, which none of these string literals has.      *)
(***************************************************************************)
PrimKinds == {"string", "number", "boolean"}

PrimV(k) == [kind |-> "prim", of |-> k]
ArrV(items) == [kind |-> "array", items |-> items]
ObjV(props) == [kind |-> "object", props |-> props]
EmptyObj == ObjV(<<>>)

Keys(v) == DOMAIN v.props

RECURSIVE SeqMax(_)
SeqMax(s) == IF s = <<>> THEN 0
             ELSE LET r == SeqMax(Tail(s)) IN IF Head(s) > r THEN Head(s) ELSE r

SetMax(S) == IF S = {} THEN 0 ELSE CHOOSE y \in S : \A z \in S : z <= y

\* Nesting depth of a literal: a primitive is 0, {} and [] are 1.
RECURSIVE Depth(_)
Depth(v) ==
    CASE v.kind = "prim" -> 0
      [] v.kind = "array" -> 1 + SeqMax([i \in DOMAIN v.items |-> Depth(v.items[i])])
      [] v.kind = "object" -> 1 + SetMax({Depth(v.props[k]) : k \in Keys(v)})

RECURSIVE Flat(_)
Flat(ss) == IF ss = <<>> THEN <<>> ELSE Head(ss) \o Flat(Tail(ss))

(***************************************************************************)
(* Type terms.  A union and an intersection keep their members in a        *)
(* sequence; a recursive alias is a reference that Resolve unfolds.        *)
(***************************************************************************)
Never == [t |-> "never"]
Prim(n) == [t |-> "prim", name |-> n]
ArrayOf(T) == [t |-> "array", elem |-> T]
\* Faulty variant of TupleOf: the pair written as an array, [V, V] as V[].
TupleOf_AsArray(ts) == ArrayOf(ts[1])
TupleOf(ts) == [t |-> "tuple", elems |-> ts]
Ref(alias, TSchemaUID, TAttributeName) ==
    [t |-> "ref", alias |-> alias, uid |-> TSchemaUID, attr |-> TAttributeName]

\* A | B | ...: never members vanish, the empty union is never.
Union(ts) ==
    LET live == SelectSeq(ts, LAMBDA T : T.t # "never")
    IN  CASE live = <<>> -> Never
          [] Len(live) = 1 -> live[1]
          [] OTHER -> [t |-> "union", members |-> live]

\* { [K in keys]?: F<K> }, given as the function K |-> F<K>: a mapped type over
\* a finite union of keys, every property optional.  Over never (no key) it
\* is the empty object type {}.
MappedOptional(props) ==
    [t |-> "object", props |-> props, required |-> {}, index |-> <<>>]

\* { [K in string]?: T }: a mapped type over string is a string index signature.
IndexSignature(T) ==
    [t |-> "object", props |-> <<>>, required |-> {}, index |-> <<T>>]

\* The types a property named k must satisfy in object type A (its declared
\* type, and the index signature, which constrains every property).
Constraints(A, k) ==
    (IF k \in DOMAIN A.props THEN <<A.props[k]>> ELSE <<>>) \o A.index

AllOf(ts) == IF Len(ts) = 1 THEN ts[1] ELSE [t |-> "intersection", parts |-> ts]

\* A & B of two object types (never absorbs): a property declared on either
\* side must satisfy every constraint either side puts on its name.
Intersect(A, B) ==
    IF A.t = "never" \/ B.t = "never" THEN Never
    ELSE [t |-> "object",
          props |-> [k \in DOMAIN A.props \cup DOMAIN B.props |->
                        AllOf(Constraints(A, k) \o Constraints(B, k))],
          required |-> A.required \cup B.required,
          index |-> IF A.index \o B.index = <<>> THEN <<>>
                    ELSE <<AllOf(A.index \o B.index)>>]

(***************************************************************************)
(* The schema registry the aliases read (Common.Schemas, filled by the     *)
(* runtime schema registration; not part of filters/index.ts).  Four       *)
(* schemas: two content types related in a cycle (article.author ->        *)
(* user, user.articles -> article) with a self relation (user.manager ->   *)
(* user), one that declares its own scalar 'id', and one whose attribute   *)
(* list does not resolve (no scalar key, no nested key).                   *)
(***************************************************************************)
SchemaOrder == <<"article", "user", "legacy", "unknown">>
Common_UID_Schema == {SchemaOrder[i] : i \in DOMAIN SchemaOrder}

ScalarAttributes(s) ==
    CASE s = "article" -> [title |-> Prim("string"), views |-> Prim("number")]
      [] s = "user" -> [name |-> Prim("string")]
      [] s = "legacy" -> [id |-> Prim("string")]
      [] OTHER -> <<>>

NestedAttributes(s) ==
    CASE s = "article" -> [author |-> "user"]
      [] s = "user" -> [manager |-> "user", articles |-> "article"]
      [] OTHER -> <<>>

\* AttributeUtils.GetScalarKeys<TSchemaUID>, AttributeUtils.GetNestedKeys<TSchemaUID>
GetScalarKeys(TSchemaUID) == UNION {DOMAIN ScalarAttributes(s) : s \in TSchemaUID}
GetNestedKeys(TSchemaUID) == UNION {DOMAIN NestedAttributes(s) : s \in TSchemaUID}

\* Attribute.GetTarget<TSchemaUID, TKey>: the schema(s) the relation points to.
GetTarget(TSchemaUID, TKey) ==
    UNION {{NestedAttributes(s)[k] : k \in TKey \cap DOMAIN NestedAttributes(s)} :
              s \in TSchemaUID}

\* AttributeUtils.GetValue<Attribute.Get<TSchemaUID, TKey>>
GetValue(TSchemaUID, TKey) ==
    LET decl == UNION {{ScalarAttributes(s)[k].name :
                           k \in TKey \cap DOMAIN ScalarAttributes(s)} : s \in TSchemaUID}
        kinds == SelectSeq(<<"string", "numstr", "number", "boolean">>,
                           LAMBDA n : n \in decl)
    IN  Union([i \in DOMAIN kinds |-> Prim(kinds[i])])

\* Params.Attribute.ID: `${number}` | number
Params_Attribute_ID == Union(<<Prim("numstr"), Prim("number")>>)

\* AttributeUtils.ScalarValues: every value a scalar attribute can hold.
ScalarValues == Union(<<Prim("string"), Prim("number"), Prim("boolean")>>)

\* Operator classes of ./operators.
Operator_Group == {"$and", "$or"}
Operator_Logical == {"$not"}
Operator_BooleanValue == {"$null", "$notNull"}
Operator_DynamicValue == {"$eq", "$ne"}
Operator_DynamicArrayValue == {"$in", "$notIn"}
Operator_DynamicBoundValue == {"$between"}

(***************************************************************************)
(* Utils: Guard.Never, Cast, Expression.StrictEqual / IsNotNever /         *)
(* MatchFirst.  A union of string literal types is the set of its          *)
(* members, so never is {}.                                                *)
(***************************************************************************)
Guard_Never(T, TFallback) == IF T.t = "never" THEN TFallback ELSE T
Guard_NeverKeys(T, TFallback) == IF T = {} THEN TFallback ELSE T
Cast(T, U) == IF T \subseteq U THEN T ELSE U
StrictEqual(TValue, TMatch) == TValue \subseteq TMatch /\ TMatch \subseteq TValue
IsNotNever(TValue) == TValue # {}

\* MatchFirst<[[Test, Result], ...], Default>: the result of the first test that holds.
MatchFirst(tests, default) ==
    LET hits == {i \in DOMAIN tests : tests[i][1]}
    IN  IF hits = {} THEN default
        ELSE tests[CHOOSE i \in hits : \A j \in hits : i <= j][2]

(***************************************************************************)
(* filters/index.ts.  Each alias builds one level of its type; a use of    *)
(* an alias in property position is a reference (Ref), unfolded by         *)
(* Resolve when a value is checked against it.                             *)
(***************************************************************************)
IDKey == {"id"}

\* Faulty variant of GetScalarAttributeValue: the fallback taken for every attribute name.
GetScalarAttributeValue_AnyScalar(TSchemaUID, TAttributeName) == ScalarValues

\* Faulty variant of GetScalarAttributeValue: the two tests in the other order.
GetScalarAttributeValue_DeclaredFirst(TSchemaUID, TAttributeName) ==
    MatchFirst(
        << <<IsNotNever(TAttributeName) /\ TAttributeName \subseteq GetScalarKeys(TSchemaUID),
             GetValue(TSchemaUID, Cast(TAttributeName, GetScalarKeys(TSchemaUID)))>>,
           <<StrictEqual(TAttributeName, IDKey), Params_Attribute_ID>> >>,
        ScalarValues)

\* GetScalarAttributeValue<TSchemaUID, TAttributeName>
GetScalarAttributeValue(TSchemaUID, TAttributeName) ==
    MatchFirst(
        << <<StrictEqual(TAttributeName, IDKey), Params_Attribute_ID>>,
           <<IsNotNever(TAttributeName),
             GetValue(TSchemaUID, Cast(TAttributeName, GetScalarKeys(TSchemaUID)))>> >>,
        ScalarValues)

\* Faulty variant of AttributeCondition: Logical and Group operators recurse on the
\* root filter object of the schema instead of on the attribute's condition.
AttributeCondition_RootInside(TSchemaUID, TAttributeName) ==
    LET TAttributeValue == GetScalarAttributeValue(TSchemaUID, TAttributeName)
        Root == Ref("ObjectNotation", TSchemaUID, {})
    IN  Union(<<
            TAttributeValue,
            Intersect(MappedOptional([TIter \in Operator_BooleanValue |-> Prim("boolean")]),
            Intersect(MappedOptional([TIter \in Operator_DynamicValue |-> TAttributeValue]),
            Intersect(MappedOptional([TIter \in Operator_DynamicArrayValue |-> ArrayOf(TAttributeValue)]),
            Intersect(MappedOptional([TIter \in Operator_DynamicBoundValue |-> TupleOf(<<TAttributeValue, TAttributeValue>>)]),
            Intersect(MappedOptional([TIter \in Operator_Logical |-> Root]),
                      MappedOptional([TIter \in Operator_Group |-> ArrayOf(Root)]))))))
        >>)

\* AttributeCondition<TSchemaUID, TAttributeName>
AttributeCondition(TSchemaUID, TAttributeName) ==
    LET TAttributeValue == GetScalarAttributeValue(TSchemaUID, TAttributeName)
        Self == Ref("AttributeCondition", TSchemaUID, TAttributeName)
    IN  Union(<<
            TAttributeValue,
            Intersect(MappedOptional([TIter \in Operator_BooleanValue |-> Prim("boolean")]),
            Intersect(MappedOptional([TIter \in Operator_DynamicValue |-> TAttributeValue]),
            Intersect(MappedOptional([TIter \in Operator_DynamicArrayValue |-> ArrayOf(TAttributeValue)]),
            Intersect(MappedOptional([TIter \in Operator_DynamicBoundValue |-> TupleOf(<<TAttributeValue, TAttributeValue>>)]),
            Intersect(MappedOptional([TIter \in Operator_Logical |-> Self]),
                      MappedOptional([TIter \in Operator_Group |-> ArrayOf(Self)]))))))
        >>)

\* IDFiltering = { id?: AttributeCondition<never, IDKey> }
IDFiltering == MappedOptional([TKey \in IDKey |-> Ref("AttributeCondition", {}, IDKey)])

\* Faulty variant of ScalarAttributesFiltering: IDFiltering left out.
ScalarAttributesFiltering_NoID(TSchemaUID) ==
    MappedOptional([TKey \in GetScalarKeys(TSchemaUID) |-> Ref("AttributeCondition", TSchemaUID, {TKey})])

\* ScalarAttributesFiltering<TSchemaUID>
ScalarAttributesFiltering(TSchemaUID) ==
    Intersect(IDFiltering,
              MappedOptional([TKey \in GetScalarKeys(TSchemaUID) |-> Ref("AttributeCondition", TSchemaUID, {TKey})]))

\* Faulty variant of NestedAttributeFiltering: the relation is not followed to its target.
NestedAttributeFiltering_SameSchema(TSchemaUID) ==
    MappedOptional([TKey \in GetNestedKeys(TSchemaUID) |-> Ref("ObjectNotation", TSchemaUID, {})])

\* NestedAttributeFiltering<TSchemaUID>
NestedAttributeFiltering(TSchemaUID) ==
    MappedOptional([TKey \in GetNestedKeys(TSchemaUID) |-> Ref("ObjectNotation", GetTarget(TSchemaUID, {TKey}), {})])

\* AttributesFiltering<TSchemaUID>
AttributesFiltering(TSchemaUID) ==
    Guard_Never(
        Intersect(ScalarAttributesFiltering(TSchemaUID), NestedAttributeFiltering(TSchemaUID)),
        IndexSignature(Union(<<Ref("AttributeCondition", TSchemaUID, {}),
                               Ref("NestedAttributeCondition", TSchemaUID, {})>>)))

\* Faulty variant of RootLevelOperatorFiltering: the Logical operators take an array too.
RootLevelOperatorFiltering_LogicalAsArray(TSchemaUID) ==
    MappedOptional([TIter \in Operator_Group \cup Operator_Logical |-> ArrayOf(Ref("ObjectNotation", TSchemaUID, {}))])

\* RootLevelOperatorFiltering<TSchemaUID>
RootLevelOperatorFiltering(TSchemaUID) ==
    Intersect(MappedOptional([TIter \in Operator_Group |-> ArrayOf(Ref("ObjectNotation", TSchemaUID, {}))]),
              MappedOptional([TIter \in Operator_Logical |-> Ref("ObjectNotation", TSchemaUID, {})]))

\* Faulty variant of ObjectNotation: no distribution, the union is treated as one schema.
ObjectNotation_Undistributed(TSchemaUID) ==
    Intersect(RootLevelOperatorFiltering(TSchemaUID), AttributesFiltering(TSchemaUID))

\* Faulty variant of ObjectNotation: the alias refers to itself without an object level.
ObjectNotation_SelfAlias(TSchemaUID) ==
    Union(<<Ref("ObjectNotation", TSchemaUID, {}),
            Intersect(RootLevelOperatorFiltering(TSchemaUID), AttributesFiltering(TSchemaUID))>>)

\* ObjectNotation<TSchemaUID>: distributes over the union TSchemaUID; the
\* mapped type is indexed by the member the conditional type is visiting.
ObjectNotation(TSchemaUID) ==
    LET TUIDs == SelectSeq(SchemaOrder, LAMBDA x : x \in TSchemaUID)
    IN  Union([i \in DOMAIN TUIDs |->
                  Intersect(RootLevelOperatorFiltering({TUIDs[i]}),
                            AttributesFiltering({TUIDs[i]}))])

\* NestedAttributeCondition<TSchemaUID, TAttributeName>
NestedAttributeCondition(TSchemaUID, TAttributeName) ==
    ObjectNotation(Guard_NeverKeys(GetTarget(TSchemaUID, TAttributeName), Common_UID_Schema))

\* Any<TSchemaUID>
Filters_Any(TSchemaUID) == Ref("ObjectNotation", TSchemaUID, {})

\* One instantiation of an alias.
Instantiate(r) ==
    CASE r.alias = "ObjectNotation" -> ObjectNotation(r.uid)
      [] r.alias = "AttributeCondition" -> AttributeCondition(r.uid, r.attr)
      [] r.alias = "NestedAttributeCondition" -> NestedAttributeCondition(r.uid, r.attr)

\* The checker instantiates an alias once per type-argument list and caches
\* the result; Resolve is the cache lookup.
AttributeNames == {{}} \cup {{k} : k \in IDKey \cup GetScalarKeys(Common_UID_Schema)}
Instantiations ==
    [r \in {Ref(a, U, n) : a \in {"ObjectNotation", "AttributeCondition",
                                   "NestedAttributeCondition"},
                           U \in SUBSET Common_UID_Schema,
                           n \in AttributeNames} |-> Instantiate(r)]
Resolve(r) == Instantiations[r]

(***************************************************************************)
(* Assignability of a filter literal to a type, as the TypeScript checker  *)
(* decides it for a fresh object literal:                                  *)
(*   - a literal is assignable to a union when it is assignable to one     *)
(*     member;                                                             *)
(*   - an object literal is assignable to an object type when every        *)
(*     required property is present and every property the type declares  *)
(*     (or covers by its index signature) has an assignable value;         *)
(*     primitives and arrays are not assignable to these object types;     *)
(*   - excess property check: every property of an object literal must be  *)
(*     known to the target; for a target with several object members,      *)
(*     known to at least one of them, with a value assignable to the       *)
(*     union of that property's types in the members that know it;         *)
(*   - an all-optional (weak) object type needs at least one property in   *)
(*     common with a non-empty literal;                                    *)
(*   - unfolding aliases is limited by an instantiation depth (fuel); a    *)
(*     check that exceeds it fails as "too_deep".                          *)
(***************************************************************************)
TooDeep == [t |-> "too_deep"]

All(results) == IF "too_deep" \in results THEN "too_deep"
                ELSE IF "rejected" \in results THEN "rejected" ELSE "accepted"
Some(results) == IF "too_deep" \in results THEN "too_deep"
                 ELSE IF "accepted" \in results THEN "accepted" ELSE "rejected"
Decide(b) == IF b THEN "accepted" ELSE "rejected"

\* A primitive type against the kind of a primitive literal.
PrimAccepts(n, kind) ==
    CASE n = "string" -> kind \in {"string", "numstr"}
      [] n = "numstr" -> kind = "numstr"
      [] n = "number" -> kind = "number"
      [] n = "boolean" -> kind = "boolean"

\* m1 & m2 of two structural types.
Meet(m1, m2) ==
    CASE m1.t = "prim" /\ m2.t = "prim" ->
            IF m1.name = m2.name THEN m1
            ELSE IF {m1.name, m2.name} = {"string", "numstr"} THEN Prim("numstr")
            ELSE Never
      [] m1.t = "object" /\ m2.t = "object" -> Intersect(m1, m2)
      [] m1.t = "array" /\ m2.t = "array" -> ArrayOf(AllOf(<<m1.elem, m2.elem>>))
      [] m1.t = "tuple" /\ m2.t = "tuple" /\ Len(m1.elems) = Len(m2.elems) ->
            TupleOf([i \in DOMAIN m1.elems |-> AllOf(<<m1.elems[i], m2.elems[i]>>)])
      [] OTHER -> Never

HasTooDeep(ms) == \E i \in DOMAIN ms : ms[i].t = "too_deep"

\* (A1 | A2 | ...) & (B1 | B2 | ...) = the union of the Ai & Bj.
Product(ms1, ms2) ==
    IF HasTooDeep(ms1) \/ HasTooDeep(ms2) THEN <<TooDeep>>
    ELSE SelectSeq(Flat([i \in DOMAIN ms1 |-> [j \in DOMAIN ms2 |-> Meet(ms1[i], ms2[j])]]),
                   LAMBDA m : m.t # "never")

\* The structural members of a type: references unfolded, unions flattened,
\* intersections distributed.
RECURSIVE Members(_, _)
RECURSIVE MembersOfAll(_, _)
Members(T, fuel) ==
    CASE T.t = "ref" -> IF fuel <= 0 THEN <<TooDeep>> ELSE Members(Resolve(T), fuel - 1)
      [] T.t = "union" -> Flat([i \in DOMAIN T.members |-> Members(T.members[i], fuel)])
      [] T.t = "intersection" -> MembersOfAll(T.parts, fuel)
      [] T.t = "never" -> <<>>
      [] OTHER -> <<T>>
MembersOfAll(ts, fuel) ==
    IF Len(ts) = 1 THEN Members(ts[1], fuel)
    ELSE Product(Members(Head(ts), fuel), MembersOfAll(Tail(ts), fuel))

Knows(m, k) == k \in DOMAIN m.props \/ m.index # <<>>
PropType(m, k) == AllOf(Constraints(m, k))
IsWeak(m) == m.required = {} /\ m.index = <<>> /\ DOMAIN m.props # {}

RECURSIVE Assignable(_, _, _)
Assignable(v, T, fuel) ==
    LET ms == Members(T, fuel)
        at(n) == {i \in DOMAIN ms : ms[i].t = n}
        \* the literal against one object type, structurally
        ObjectTo(m) ==
            IF ~(m.required \subseteq Keys(v)) THEN "rejected"
            ELSE IF IsWeak(m) /\ Keys(v) # {} /\ Keys(v) \cap DOMAIN m.props = {}
                 THEN "rejected"
            ELSE All({Assignable(v.props[k], PropType(m, k), fuel - 1) :
                         k \in {x \in Keys(v) : Knows(m, x)}})
        \* the excess property check of the literal against the whole target
        Excess(k) ==
            LET known == SelectSeq(ms, LAMBDA m : m.t = "object" /\ Knows(m, k))
            IN  IF known = <<>> THEN "rejected"
                ELSE IF Cardinality(at("object")) = 1 THEN "accepted"
                ELSE Assignable(v.props[k],
                                Union([i \in DOMAIN known |-> PropType(known[i], k)]),
                                fuel - 1)
        ArrayTo(m) ==
            IF m.t = "array"
            THEN All({Assignable(v.items[j], m.elem, fuel - 1) : j \in DOMAIN v.items})
            ELSE IF Len(v.items) # Len(m.elems) THEN "rejected"
            ELSE All({Assignable(v.items[j], m.elems[j], fuel - 1) : j \in DOMAIN v.items})
    IN  IF HasTooDeep(ms) THEN "too_deep"
        ELSE CASE v.kind = "prim" ->
                    Decide(\E i \in at("prim") : PrimAccepts(ms[i].name, v.of))
               [] v.kind = "array" ->
                    Some({ArrayTo(ms[i]) : i \in at("array") \cup at("tuple")})
               [] v.kind = "object" ->
                    IF at("object") = {} THEN "rejected"
                    ELSE All({Some({ObjectTo(ms[i]) : i \in at("object")})}
                             \cup {Excess(k) : k \in Keys(v)})

(***************************************************************************)
(* The state machine: a filter literal is written from the inside out and  *)
(* re-checked, after every edit, against Filters.Any<U> for every type     *)
(* argument U tried; separately, the value type of an attribute name is    *)
(* resolved.                                                               *)
(***************************************************************************)
InstantiationBudget == MaxDepth + 2

\* The checker's answer for  const f: Filters.Any<TSchemaUID> = v
TypeCheck(TSchemaUID, v) == Assignable(v, Filters_Any(TSchemaUID), InstantiationBudget)

\* The type arguments tried: every single schema, a union of two, and never.
TypeArguments == {{s} : s \in Common_UID_Schema} \cup {{"article", "user"}, {}}

Leaf(l) == IF l = "{}" THEN EmptyObj ELSE PrimV(l)
Leaves == PrimKinds \cup {"{}"}

Init ==
    /\ \E l \in Leaves : filter = Leaf(l)
    /\ verdict = [U \in TypeArguments |-> TypeCheck(U, filter)]
    /\ pc = "start"
    /\ uid = {}
    /\ attrName = {}
    /\ valueType = Never

Edit(v) ==
    /\ pc \in {"start", "editing"}
    /\ filter' = v
    /\ verdict' = [U \in TypeArguments |-> TypeCheck(U, v)]
    /\ pc' = "editing"
    /\ UNCHANGED <<uid, attrName, valueType>>

\* { k: <the literal so far> }
Nest(k) ==
    /\ Depth(filter) < MaxDepth
    /\ Edit(ObjV([x \in {k} |-> filter]))

\* [ <the literal so far> ]
WrapArray ==
    /\ Depth(filter) < MaxDepth
    /\ Edit(ArrV(<<filter>>))

\* one more element in the array literal
AppendItem(l) ==
    /\ filter.kind = "array"
    /\ Len(filter.items) < MaxLen
    /\ Edit(ArrV(Append(filter.items, Leaf(l))))

\* one more property in the object literal
SetKey(k, l) ==
    /\ filter.kind = "object"
    /\ k \notin Keys(filter)
    /\ Cardinality(Keys(filter)) < MaxKeys
    /\ Edit(ObjV([x \in Keys(filter) \cup {k} |->
                    IF x = k THEN Leaf(l) ELSE filter.props[x]]))

\* GetScalarAttributeValue<S, TAttributeName> for an attribute name the
\* constraint IDKey | GetScalarKeys<S> allows, never included.
ResolveValue(S, TAttributeName) ==
    /\ pc = "start"
    /\ TAttributeName \subseteq IDKey \cup GetScalarKeys(S)
    /\ Cardinality(TAttributeName) <= 1
    /\ uid' = S
    /\ attrName' = TAttributeName
    /\ valueType' = GetScalarAttributeValue(S, TAttributeName)
    /\ pc' = "resolved"
    /\ UNCHANGED <<filter, verdict>>

Resolutions ==
    \E S \in TypeArguments : \E n \in SUBSET (IDKey \cup GetScalarKeys(S)) : ResolveValue(S, n)

\* Literals around the operators of one scalar condition.
NextCondition ==
    \/ \E k \in {"title", "id", "$eq", "$in", "$between", "$null"} : Nest(k)
    \/ WrapArray
    \/ AppendItem("string")
    \/ SetKey("$null", "boolean")
    \/ Resolutions

SpecCondition == Init /\ [][NextCondition]_vars

\* Literals around Logical and Group operators, in a condition and at the root.
NextLogical ==
    \/ \E k \in {"title", "$eq", "$and", "$or", "$not"} : Nest(k)
    \/ WrapArray
    \/ AppendItem("string")
    \/ SetKey("title", "string")

SpecLogical == Init /\ [][NextLogical]_vars

\* Literals around relations.
NextRelation ==
    \/ \E k \in {"author", "manager", "articles", "title", "name", "id", "$not"} : Nest(k)
    \/ SetKey("name", "string")

Spec == Init /\ [][NextRelation]_vars

(***************************************************************************)
(* What the claims are stated against: the registry read directly, and a   *)
(* description of literals by their shape alone.                           *)
(***************************************************************************)
Resolved == {"article", "user", "legacy"}
Accepted(U) == verdict[U] = "accepted"
IsPrim(x, kinds) == x.kind = "prim" /\ x.of \in kinds
IsArrayOfPrims(x, kinds) ==
    x.kind = "array" /\ \A i \in DOMAIN x.items : IsPrim(x.items[i], kinds)
Only(k) == filter.kind = "object" /\ Keys(filter) = {k}
Restrict(x, ks) == ObjV([k \in Keys(x) \cap ks |-> x.props[k]])

\* The literal kinds an attribute holds: numbers for 'id', else what the schema declares.
DeclaredKinds(S, K) ==
    IF K = "id" THEN {"number"}
    ELSE {kind \in PrimKinds : PrimAccepts(ScalarAttributes(S)[K].name, kind)}

ComparisonOperators ==
    Operator_BooleanValue \cup Operator_DynamicValue \cup Operator_DynamicArrayValue
        \cup Operator_DynamicBoundValue

\* The operand an operator of one of the four value classes takes, for values of kinds V.
OperandFits(op, y, V) ==
    CASE op \in Operator_BooleanValue -> IsPrim(y, {"boolean"})
      [] op \in Operator_DynamicValue -> IsPrim(y, V)
      [] op \in Operator_DynamicArrayValue -> IsArrayOfPrims(y, V)
      [] op \in Operator_DynamicBoundValue ->
            IsArrayOfPrims(y, V) /\ Len(y.items) = 2
      [] OTHER -> FALSE

\* A scalar condition over values of kinds V: a bare value, or an object of operators.
RECURSIVE IsCondition(_, _)
IsCondition(x, V) ==
    CASE x.kind = "prim" -> x.of \in V
      [] x.kind = "array" -> FALSE
      [] x.kind = "object" ->
            \A k \in Keys(x) :
                CASE k \in ComparisonOperators -> OperandFits(k, x.props[k], V)
                  [] k \in Operator_Logical -> IsCondition(x.props[k], V)
                  [] k \in Operator_Group ->
                        /\ x.props[k].kind = "array"
                        /\ \A i \in DOMAIN x.props[k].items :
                              IsCondition(x.props[k].items[i], V)
                  [] OTHER -> FALSE

\* The keys a filter literal for schema S may use.
KnownKeys(S) ==
    Operator_Group \cup Operator_Logical \cup IDKey
        \cup DOMAIN ScalarAttributes(S) \cup DOMAIN NestedAttributes(S)

\* A filter literal for schema S, described by its shape: operators recurse on
\* S, a scalar key holds a condition over its kinds, a relation key holds a
\* filter literal for the relation's target.
RECURSIVE IsFilterFor(_, _)
IsFilterFor(x, S) ==
    /\ x.kind = "object"
    /\ \A k \in Keys(x) :
          CASE k \in Operator_Group ->
                  /\ x.props[k].kind = "array"
                  /\ \A i \in DOMAIN x.props[k].items : IsFilterFor(x.props[k].items[i], S)
            [] k \in Operator_Logical -> IsFilterFor(x.props[k], S)
            [] k \in IDKey \cup DOMAIN ScalarAttributes(S) ->
                  IsCondition(x.props[k], DeclaredKinds(S, k))
            [] k \in DOMAIN NestedAttributes(S) ->
                  IsFilterFor(x.props[k], NestedAttributes(S)[k])
            [] OTHER -> FALSE

(***************************************************************************)
(* Claims checked under SpecCondition.                                     *)
(***************************************************************************)

\* C1: for every schema S and scalar attribute key K of S, the value x under K in
\* a filter literal {K: x} is accepted for S iff x is a bare value of the
\* attribute's value type or an object all of whose keys are operators (with
\* fitting operands); in particular a bare value of another type is rejected.
C1_ScalarCondition ==
    \A S \in Common_UID_Schema : \A K \in GetScalarKeys({S}) :
        Only(K) => (Accepted({S}) <=> IsCondition(filter.props[K], DeclaredKinds(S, K)))

\* C1 witness: an object of two operators under a scalar key is accepted.
C1_Witness ==
    /\ Only("title")
    /\ filter.props["title"].kind = "object"
    /\ Keys(filter.props["title"]) = {"$eq", "$null"}
    /\ Accepted({"article"})

\* C6: inside the operator object of a scalar condition over V, a BooleanValue
\* operator takes a boolean whatever V is, a DynamicValue operator one V, a
\* DynamicArrayValue operator an array of V of any length, a DynamicBoundValue
\* operator an array of exactly two V.
C6_OperandShapes ==
    \A S \in Common_UID_Schema : \A K \in IDKey \cup GetScalarKeys({S}) :
        \A op \in ComparisonOperators :
            (/\ Only(K)
             /\ filter.props[K].kind = "object"
             /\ Keys(filter.props[K]) = {op})
            => (Accepted({S}) <=>
                    OperandFits(op, filter.props[K].props[op], DeclaredKinds(S, K)))

\* C6 witness: a three-element array was checked as the operand of $between.
C6_Witness ==
    /\ Only("title")
    /\ filter.props["title"].kind = "object"
    /\ Keys(filter.props["title"]) = {"$between"}
    /\ filter.props["title"].props["$between"].kind = "array"
    /\ Len(filter.props["title"].props["$between"].items) = 3
    /\ ~Accepted({"article"})

\* C7: the value type is the ID parameter type when the attribute name is
\* exactly 'id', whatever the schema; else the declared value of the attribute
\* when the name is not never; else the union of all scalar values.
C7_ValueTypeRules ==
    pc = "resolved" =>
        valueType =
            IF attrName = {"id"} THEN Params_Attribute_ID
            ELSE IF attrName # {}
                 THEN Prim(ScalarAttributes(CHOOSE s \in uid : attrName \subseteq
                                                DOMAIN ScalarAttributes(s))
                               [CHOOSE k \in attrName : TRUE].name)
            ELSE ScalarValues

\* C7 witness: 'id' was resolved for the schema that declares its own 'id'
\* attribute (rule 1 and rule 2 both match).
C7_Witness ==
    pc = "resolved" /\ uid = {"legacy"} /\ attrName = {"id"}

(***************************************************************************)
(* Claims checked under SpecLogical.                                       *)
(***************************************************************************)

\* C3: at the root of a filter literal for schema S every Group key is optional
\* and holds an array of filter literals accepted for S, every Logical key is
\* optional and holds one filter literal accepted for S (not an array), and the
\* literal is accepted exactly when these operator constraints hold and its
\* attribute keys, taken alone, are accepted.
C3_RootOperators ==
    \A S \in Common_UID_Schema :
        filter.kind = "object" =>
            (Accepted({S}) <=>
                /\ \A g \in Keys(filter) \cap Operator_Group :
                      /\ filter.props[g].kind = "array"
                      /\ \A i \in DOMAIN filter.props[g].items :
                            TypeCheck({S}, filter.props[g].items[i]) = "accepted"
                /\ \A l \in Keys(filter) \cap Operator_Logical :
                      /\ filter.props[l].kind = "object"
                      /\ TypeCheck({S}, filter.props[l]) = "accepted"
                /\ TypeCheck({S}, Restrict(filter, Keys(filter) \ (Operator_Group
                                                \cup Operator_Logical))) = "accepted")

\* C3 witness: a Group operator and an attribute key together in an accepted literal.
C3_Witness ==
    /\ filter.kind = "object"
    /\ Keys(filter) = {"$and", "title"}
    /\ filter.props["$and"].kind = "array"
    /\ filter.props["$and"].items[1].kind = "object"
    /\ Keys(filter.props["$and"].items[1]) = {"title"}
    /\ Accepted({"article"})

\* C8: a Logical operator inside the condition of attribute K of schema S takes
\* one condition of K, a Group operator an array of conditions of K; at every
\* depth the bare values and operands are of K's value type, and no attribute
\* key or root filter literal is accepted inside.
C8_NestedConditions ==
    \A S \in Common_UID_Schema : \A K \in IDKey \cup GetScalarKeys({S}) :
        (Only(K) /\ filter.props[K].kind = "object") =>
            LET c == filter.props[K]
                under(y) == TypeCheck({S}, ObjV([x \in {K} |-> y])) = "accepted"
            IN  /\ \A l \in Operator_Logical :
                      Keys(c) = {l} => (Accepted({S}) <=> under(c.props[l]))
                /\ \A g \in Operator_Group :
                      Keys(c) = {g} =>
                          (Accepted({S}) <=>
                              /\ c.props[g].kind = "array"
                              /\ \A i \in DOMAIN c.props[g].items : under(c.props[g].items[i]))
                /\ Keys(c) \cap (Operator_Logical \cup Operator_Group) # {} =>
                      (Accepted({S}) <=> IsCondition(c, DeclaredKinds(S, K)))

\* C8 witness: an operator inside a Logical operator inside a condition, accepted.
C8_Witness ==
    /\ Only("title")
    /\ filter.props["title"].kind = "object"
    /\ Keys(filter.props["title"]) = {"$not"}
    /\ filter.props["title"].props["$not"].kind = "object"
    /\ Keys(filter.props["title"].props["$not"]) = {"$eq"}
    /\ Accepted({"article"})

(***************************************************************************)
(* Claims checked under Spec.                                              *)
(***************************************************************************)

\* C2: for every schema S and relation key K of S, the value under K in a
\* filter literal {K: x} is accepted for S iff x is a filter literal for the
\* target schema of K, at every nesting depth: the keys and value types at
\* depth n are those of the schema reached through n relations, not those of S.
C2_NestedFilters ==
    \A S \in Common_UID_Schema : \A K \in GetNestedKeys({S}) :
        Only(K) => (Accepted({S}) <=> IsFilterFor(filter.props[K], NestedAttributes(S)[K]))

\* C2 witness: a scalar key of the schema two relations away, accepted at depth two.
C2_Witness ==
    /\ Only("author")
    /\ filter.props["author"].kind = "object"
    /\ Keys(filter.props["author"]) = {"articles"}
    /\ filter.props["author"].props["articles"].kind = "object"
    /\ Keys(filter.props["author"].props["articles"]) = {"title"}
    /\ Accepted({"article"})
    /\ ~Accepted({"user"})

\* C4 (as claimed): for a schema whose attribute list does not resolve, the
\* attribute part of the filter is the abstract shape: any string key is
\* accepted, with a scalar value of any scalar type.
C4_FallbackForUnresolved ==
    \A k \in {"title", "name", "foo"} :
        (Only(k) /\ IsPrim(filter.props[k], PrimKinds)) => Accepted({"unknown"})

C9_IdEverywhere ==
    \A S \in Resolved :
        /\ Only("id") => (Accepted({S}) <=> IsCondition(filter.props["id"], {"number"}))
        /\ \A K \in GetNestedKeys({S}) :
              (/\ Only(K)
               /\ filter.props[K].kind = "object"
               /\ Keys(filter.props[K]) = {"id"})
              => (Accepted({S}) <=> IsCondition(filter.props[K].props["id"], {"number"}))
        /\ Accepted({S}) => TypeCheck({S}, Restrict(filter, Keys(filter) \ {"id"})) = "accepted"

\* C9 witness: 'id' accepted one relation down, in a schema that declares no 'id'.
C9_Witness ==
    /\ Only("author")
    /\ filter.props["author"].kind = "object"
    /\ Keys(filter.props["author"]) = {"id"}
    /\ IsPrim(filter.props["author"].props["id"], {"number"})
    /\ Accepted({"article"})

\* C10: deciding a literal terminates for every schema graph, cycles included:
\* every unfolding of an alias descends one level into the literal, so an
\* instantiation depth of Depth(filter) + 1 is never exceeded; and the empty
\* object is accepted for every schema.
C10_Terminates ==
    /\ \A U \in TypeArguments :
          /\ verdict[U] \in {"accepted", "rejected"}
          /\ Assignable(filter, Filters_Any(U), Depth(filter) + 1) = verdict[U]
    /\ filter = EmptyObj => \A S \in Common_UID_Schema : Accepted({S})

\* C10 witness: a literal that enters the cycle article -> user and goes round
\* the self relation of user, decided and accepted.
C10_Witness ==
    /\ Only("author")
    /\ filter.props["author"].kind = "object"
    /\ Keys(filter.props["author"]) = {"manager"}
    /\ filter.props["author"].props["manager"].kind = "object"
    /\ Keys(filter.props["author"].props["manager"]) = {"name"}
    /\ Accepted({"article"})

====
